---- MODULE Spec2Model ----
(***************************************************************************)
(* Year-progress wallpaper endpoints (ompatel2019/iphone-wallpaper).       *)
(*                                                                         *)
(* Five GET handlers render the days of the year as a grid of dots:        *)
(*   "days"       src/app/api/days/route.tsx 1-232   local time, flat grid *)
(*   "daysMonth"  src/app/api/days/route.tsx 234-608 Sydney, month grid    *)
(*   "var4"       src/app/api/var-4/route.tsx        Sydney, flat grid,    *)
(*                                                   progress bar          *)
(*   "canvas"     src/unnamed/part_000 1-123         local time, canvas    *)
(*   "sydneyFlat" src/unnamed/part_000 125-374       Sydney, flat grid     *)
(*                                                                         *)
(* Time is counted in whole hours since 1970-01-01T00:00Z.  Every instant  *)
(* the model draws is a whole hour, so the handlers' millisecond           *)
(* arithmetic  Math.floor(ms / (1000*60*60*24))  is exactly                *)
(* hours \div HoursPerDay.                                                 *)
(***************************************************************************)
EXTENDS Integers, Sequences, FiniteSets, TLC

VARIABLES tz, req

vars == <<tz, req>>

(***************************************************************************)
(* Bounds of the model.                                                    *)
(***************************************************************************)
NumYears == 2
\* The number of requests that can be in flight at once.
NumRequests == 2

(***************************************************************************)
(* The platform calendar (ECMAScript Date / Intl): proleptic Gregorian.    *)
(***************************************************************************)
HoursPerDay == 24

LeapsBefore(y) == ((y - 1) \div 4) - ((y - 1) \div 100) + ((y - 1) \div 400)

\* Days from 1970-01-01 to y-01-01.
DaysBeforeYear(y) == 365 * (y - 1970) + LeapsBefore(y) - LeapsBefore(1970)

DaysInYear(y) == DaysBeforeYear(y + 1) - DaysBeforeYear(y)

\* Length of month m (0-based, as in Date) of year y.
DaysInMonth(y, m) ==
    IF m = 1 THEN DaysInYear(y) - 337
    ELSE IF m \in {3, 5, 8, 10} THEN 30 ELSE 31

RECURSIVE DaysBeforeMonth(_, _)
DaysBeforeMonth(y, m) ==
    IF m = 0 THEN 0 ELSE DaysBeforeMonth(y, m - 1) + DaysInMonth(y, m - 1)

\* Date.UTC(year, month, date), in hours.
DateUTC(year, month, date) ==
    (DaysBeforeYear(year) + DaysBeforeMonth(year, month) + date - 1) * HoursPerDay

YearOfDay(D) ==
    CHOOSE y \in (1970 + D \div 366)..(1970 + D \div 365) :
        DaysBeforeYear(y) <= D /\ D < DaysBeforeYear(y + 1)

\* The 0-based month holding the day with 0-based ordinal o of year y.
MonthOfOrdinal(y, o) ==
    CHOOSE k \in 0..11 :
        DaysBeforeMonth(y, k) <= o /\ o < DaysBeforeMonth(y, k) + DaysInMonth(y, k)

\* The calendar fields; month is 1-based here, as Intl.DateTimeFormat prints it.
CivilFields(y, m, o) == [year |-> y, month |-> m + 1, day |-> o - DaysBeforeMonth(y, m) + 1]

CivilOfOrdinal(y, o) == CivilFields(y, MonthOfOrdinal(y, o), o)

\* The calendar fields of a day number (days since 1970-01-01).
CivilOfDayIn(y, D) == CivilOfOrdinal(y, D - DaysBeforeYear(y))
CivilOfDay(D) == CivilOfDayIn(YearOfDay(D), D)

\* 0 = Sunday; 1970-01-01 was a Thursday.
DayOfWeek(D) == (D + 4) % 7

FirstSundayOnOrAfter(D) == D + ((7 - DayOfWeek(D)) % 7)

(***************************************************************************)
(* Time zone rules (the platform's tz database, current rules).            *)
(*   UTC               offset 0                                            *)
(*   America/New_York  UTC-5, UTC-4 from the second Sunday of March 02:00  *)
(*                     EST to the first Sunday of November 02:00 EDT       *)
(*   Australia/Sydney  UTC+10, UTC+11 from the first Sunday of October     *)
(*                     02:00 AEST to the first Sunday of April 03:00 AEDT  *)
(***************************************************************************)
Zones == {"UTC", "America/New_York", "Australia/Sydney"}

NewYorkDSTIn(y, t) ==
    /\ FirstSundayOnOrAfter(DaysBeforeYear(y) + DaysBeforeMonth(y, 2) + 7) * HoursPerDay + 7
           <= t
    /\ t < FirstSundayOnOrAfter(DaysBeforeYear(y) + DaysBeforeMonth(y, 10)) * HoursPerDay + 6

NewYorkDST(t) == NewYorkDSTIn(YearOfDay((t - 5) \div HoursPerDay), t)

SydneyDSTIn(y, t) ==
    \/ t < FirstSundayOnOrAfter(DaysBeforeYear(y) + DaysBeforeMonth(y, 3)) * HoursPerDay - 8
    \/ FirstSundayOnOrAfter(DaysBeforeYear(y) + DaysBeforeMonth(y, 9)) * HoursPerDay - 8
           <= t

SydneyDST(t) == SydneyDSTIn(YearOfDay((t + 10) \div HoursPerDay), t)

\* The zone's UTC offset, in hours, at instant t.
Offset(zone, t) ==
    CASE zone = "UTC" -> 0
      [] zone = "America/New_York" -> IF NewYorkDST(t) THEN -4 ELSE -5
      [] zone = "Australia/Sydney" -> IF SydneyDST(t) THEN 11 ELSE 10

\* The calendar date of instant t in the zone: what getFullYear() and
\* Intl.DateTimeFormat(..., {timeZone}).formatToParts(now) report.
CivilIn(zone, t) == CivilOfDay((t + Offset(zone, t)) \div HoursPerDay)

\* The instant at which the zone's wall clock shows the wall time `wall`.
InstantOfWall(zone, wall) ==
    CHOOSE t \in {wall - o : o \in {-5, -4, 0, 10, 11}} : t + Offset(zone, t) = wall

\* new Date(year, month, date): local midnight of that date, as an instant.
LocalMidnight(zone, year, month, date) == InstantOfWall(zone, DateUTC(year, month, date))

(***************************************************************************)
(* Query strings and numbers.  A string is a sequence of one-character     *)
(* strings; a number is [nan, v], NaN being [nan |-> TRUE, v |-> 0].       *)
(***************************************************************************)
Num(v) == [nan |-> FALSE, v |-> v]
NaN == [nan |-> TRUE, v |-> 0]

Digits == <<"0", "1", "2", "3", "4", "5", "6", "7", "8", "9">>
IsDigit(ch) == \E i \in 1..10 : Digits[i] = ch
DigitValue(ch) == (CHOOSE i \in 1..10 : Digits[i] = ch) - 1

RECURSIVE SkipSpaces(_)
SkipSpaces(s) == IF s # <<>> /\ Head(s) = " " THEN SkipSpaces(Tail(s)) ELSE s

\* The value of the longest prefix of digits of s, continuing from acc.
RECURSIVE DigitRun(_, _)
DigitRun(s, acc) ==
    IF s # <<>> /\ IsDigit(Head(s))
    THEN DigitRun(Tail(s), 10 * acc + DigitValue(Head(s)))
    ELSE acc

\* parseInt(string) without a radix: leading white space is skipped, one sign is
\* taken, then the longest run of decimal digits; no digit at all gives NaN.
parseInt(str) ==
    LET s == SkipSpaces(str)
        neg == s # <<>> /\ Head(s) = "-"
        body == IF s # <<>> /\ Head(s) \in {"-", "+"} THEN Tail(s) ELSE s
    IN  IF body = <<>> \/ ~IsDigit(Head(body)) THEN NaN
        ELSE Num(IF neg THEN 0 - DigitRun(body, 0) ELSE DigitRun(body, 0))

\* What URLSearchParams.get gives for a name the query does not hold.
Null == <<"null">>

\* searchParams.get(name): the value of the first pair with that name, or null.
RECURSIVE SearchParamsGet(_, _)
SearchParamsGet(query, name) ==
    IF query = <<>> THEN Null
    ELSE IF Head(query).name = name THEN Head(query).value
    ELSE SearchParamsGet(Tail(query), name)

\* value || fallback, for a string or null: null and "" are falsy.
OrElse(value, fallback) == IF value = Null \/ value = <<>> THEN fallback ELSE value

DefaultHeight == <<"2", "5", "3", "2">>
DefaultWidth == <<"1", "1", "7", "0">>

\* const height = parseInt(searchParams.get('height') || '2532');
ParseHeight(query) == parseInt(OrElse(SearchParamsGet(query, "height"), DefaultHeight))
\* width falling back to the height's default.
ParseWidthHeightDefault(query) ==
    parseInt(OrElse(SearchParamsGet(query, "width"), DefaultHeight))

\* const width = parseInt(searchParams.get('width') || '1170');
ParseWidth(query) == parseInt(OrElse(SearchParamsGet(query, "width"), DefaultWidth))

\* Arithmetic on numbers: NaN propagates.
Scale(x, k) == IF x.nan THEN NaN ELSE Num(x.v * k)
Minus(x, y) == IF x.nan \/ y.nan THEN NaN ELSE Num(x.v - y.v)
\* Math.floor(x / k), k > 0.
FloorDiv(x, k) == IF x.nan THEN NaN ELSE Num(x.v \div k)

\* A non-negative integer printed in decimal, as formatToParts prints a numeric
\* year, month or day.
RECURSIVE FormatInt(_)
FormatInt(n) ==
    IF n < 10 THEN <<Digits[n + 1]>> ELSE Append(FormatInt(n \div 10), Digits[(n % 10) + 1])

\* Math.floor in place of Math.round.
MathTrunc(n, d) == n \div d

\* Math.round(n / d) for d > 0: the nearest integer, a half rounded up.
MathRound(n, d) == (2 * n + d) \div (2 * d)

(***************************************************************************)
(* The variants.                                                           *)
(***************************************************************************)
Variants == {"days", "daysMonth", "var4", "canvas", "sydneyFlat"}

\* The variants that resolve the date with the Australia/Sydney formatter.
SydneyVariants == {"daysMonth", "var4", "sydneyFlat"}
\* The variants that fetch the two Inter fonts before rendering.
FontVariants == {"days", "daysMonth", "var4", "sydneyFlat"}
\* The variants that render dotRows.
FlatVariants == {"days", "var4", "sydneyFlat"}

Fonts == {"regular", "italic"}

(***************************************************************************)
(* Calendar progress.                                                      *)
(***************************************************************************)
\* The year, month and day parts as formatToParts prints them, each read back
\* with parseInt; month is made 0-based.
PartsOf(civil) ==
    [year |-> parseInt(FormatInt(civil.year)).v,
     month |-> parseInt(FormatInt(civil.month)).v - 1,
     date |-> parseInt(FormatInt(civil.day)).v]

\* aestFormatter.formatToParts(now), with timeZone: 'Australia/Sydney'.
SydneyParts(now) == PartsOf(CivilIn("Australia/Sydney", now))

\* now.getFullYear() in the local variants, the formatter's year in the others.
yearOf(variant, zone, now) ==
    IF variant \in SydneyVariants THEN SydneyParts(now).year
    ELSE CivilIn(zone, now).year

\* Local variants: startOfYear = new Date(now.getFullYear(), 0, 1);
\* Math.floor((now.getTime() - startOfYear.getTime()) / msPerDay) + 1.
dayOfYearLocal(zone, now) ==
    ((now - LocalMidnight(zone, CivilIn(zone, now).year, 0, 1)) \div HoursPerDay) + 1

\* Sydney variants: startOfYearAEST = Date.UTC(year, 0, 1); nowAEST =
\* Date.UTC(year, month, date); Math.floor((nowAEST - startOfYearAEST) / msPerDay) + 1.
dayOfYearOfParts(parts) ==
    ((DateUTC(parts.year, parts.month, parts.date) - DateUTC(parts.year, 0, 1))
        \div HoursPerDay) + 1

dayOfYearSydney(now) == dayOfYearOfParts(SydneyParts(now))

dayOfYearOf(variant, zone, now) ==
    IF variant \in SydneyVariants THEN dayOfYearSydney(now) ELSE dayOfYearLocal(zone, now)

\* isLeapYear without its century clauses.
isLeapYearEveryFourth(year) == year % 4 = 0

isLeapYear(year) == (year % 4 = 0 /\ year % 100 # 0) \/ (year % 400 = 0)

totalDaysOf(year) == IF isLeapYear(year) THEN 366 ELSE 365

\* daysLeft counting the current day as left.
daysLeftInclusive(totalDays, dayOfYear) == totalDays - dayOfYear + 1

daysLeftOf(totalDays, dayOfYear) == totalDays - dayOfYear

\* percentage computed from the days left in place of the days done.
percentageOfRemaining(dayOfYear, totalDays) ==
    MathRound((totalDays - dayOfYear) * 100, totalDays)

\* Math.round((dayOfYear / totalDays) * 100).  100*dayOfYear/totalDays is never
\* within 1/(2*totalDays) of a half, so the double arithmetic rounds as the exact
\* quotient does.
percentageOf(dayOfYear, totalDays) == MathRound(dayOfYear * 100, totalDays)

(***************************************************************************)
(* Grid configuration and cells.                                           *)
(***************************************************************************)
cols == 15
rows == 24

Max(a, b) == IF a >= b THEN a ELSE b

\* extraDots with Math.min in place of Math.max.
extraDotsMin(totalDays) == IF totalDays - cols * rows <= 0 THEN totalDays - cols * rows ELSE 0

extraDotsOf(totalDays) == Max(totalDays - cols * rows, 0)

\* totalRows without the leftover row.
totalRowsNoLeftover(extraDots) == rows

totalRowsOf(extraDots) == rows + (IF extraDots > 0 THEN 1 ELSE 0)

\* Each variant's colours for past, current and future days.
Palette(variant) ==
    CASE variant = "var4" ->
             [past |-> "#111111", current |-> "#1e6bff", future |-> "#bfbfbf"]
      [] variant = "daysMonth" ->
             [past |-> "#ffffff", current |-> "#16a34a", future |-> "#333333"]
      [] OTHER ->
             [past |-> "#ffffff", current |-> "#ff8c00", future |-> "#333333"]

\* DotColor with the current day counted as past.
DotColorInclusive(variant, dayNumber, dayOfYear) ==
    IF dayNumber <= dayOfYear THEN Palette(variant).past
    ELSE IF dayNumber = dayOfYear THEN Palette(variant).current
    ELSE Palette(variant).future

\* DotColor without its last branch: every day from the current one on is current.
DotColorNoFuture(variant, dayNumber, dayOfYear) ==
    IF dayNumber < dayOfYear THEN Palette(variant).past
    ELSE Palette(variant).current

\* The if / else if / else that picks a day's colour.
DotColor(variant, dayNumber, dayOfYear) ==
    IF dayNumber < dayOfYear THEN Palette(variant).past
    ELSE IF dayNumber = dayOfYear THEN Palette(variant).current
    ELSE Palette(variant).future

\* dots coloured by the index i in place of dayNumber = i + 1.
dotsByIndex(variant, totalDays, dayOfYear) ==
    [n \in 1..totalDays |-> [day |-> n, color |-> DotColor(variant, n - 1, dayOfYear)]]

\* dots = Array.from({ length: totalDays }, (_, i) => ({ color })).  A dot object
\* is modelled with the dayNumber = i + 1 it was made for, which stands for the
\* object's identity.
dotsOf(variant, totalDays, dayOfYear) ==
    [n \in 1..totalDays |-> [day |-> n, color |-> DotColor(variant, n, dayOfYear)]]

\* The nested loop that builds dotRows (rows and columns are 0-based in the
\* code; row r of the code is dotRows[r + 1] here).
dotRowsOf(dots, totalDays, extraDots, totalRows) ==
    [r1 \in 1..totalRows |->
        LET r == r1 - 1
            dotsInRow == IF r < rows THEN cols ELSE extraDots
            indexes == SelectSeq([c1 \in 1..dotsInRow |-> r * cols + (c1 - 1)],
                                 LAMBDA index : index < totalDays)
        IN  [k \in 1..Len(indexes) |-> dots[indexes[k] + 1]]]

\* The canvas draw loop ends at the first i that fails the loop condition
\* i < totalDots or takes one of the two break statements.
DrawLoopEnd(totalDots, extraDots, totalRows) ==
    LET ends == {i \in 0..totalDots :
                    \/ i >= totalDots
                    \/ i \div cols >= totalRows
                    \/ (IF i \div cols < rows THEN cols ELSE extraDots) = 0}
    IN  CHOOSE i \in ends : \A j \in ends : i <= j

\* The dots the canvas loop fills, in drawing order.
drawnOf(variant, totalDots, dayOfYear, extraDots, totalRows) ==
    [k \in 1..DrawLoopEnd(totalDots, extraDots, totalRows) |->
        [row |-> (k - 1) \div cols, col |-> (k - 1) % cols,
         day |-> k, color |-> DotColor(variant, k, dayOfYear)]]

(***************************************************************************)
(* Month grid.                                                             *)
(***************************************************************************)
monthNames ==
    <<"Jan", "Feb", "Mar", "Apr", "May", "Jun", "Jul", "Aug", "Sep", "Oct", "Nov", "Dec">>

\* monthLengths with a fixed February of 28 days.
monthLengthsCommon(year) == <<31, 28, 31, 30, 31, 30, 31, 31, 30, 31, 30, 31>>

monthLengthsOf(year) ==
    <<31, IF isLeapYear(year) THEN 29 ELSE 28, 31, 30, 31, 30, 31, 31, 30, 31, 30, 31>>

\* dayCounter started at 0 in place of 1.
RECURSIVE dayCounterFromZero(_, _)
dayCounterFromZero(monthLengths, monthIndex) ==
    IF monthIndex = 1 THEN 0
    ELSE dayCounterFromZero(monthLengths, monthIndex - 1) + monthLengths[monthIndex - 1]

\* dayCounter when the map callback runs for month monthIndex (1-based here).
RECURSIVE dayCounterAt(_, _)
dayCounterAt(monthLengths, monthIndex) ==
    IF monthIndex = 1 THEN 1
    ELSE dayCounterAt(monthLengths, monthIndex - 1) + monthLengths[monthIndex - 1]

monthsDataOf(variant, monthLengths, dayOfYear) ==
    [monthIndex \in 1..Len(monthLengths) |->
        LET dayCounter == dayCounterAt(monthLengths, monthIndex)
        IN  [name |-> monthNames[monthIndex],
             days |-> [i1 \in 1..monthLengths[monthIndex] |->
                          LET absoluteDay == dayCounter + (i1 - 1)
                          IN  [day |-> absoluteDay,
                               color |-> DotColor(variant, absoluteDay, dayOfYear)]]]]

monthGridCols == 3
monthGridRows == 4
innerCols == 7
innerRows == 5

\* An empty slot of a month's 7 x 5 grid.
Placeholder == [day |-> 0, color |-> "transparent"]

\* monthBlocksOf with the months placed column by column.
monthBlocksColumnMajor(monthsData) ==
    [rowIndex1 \in 1..monthGridRows |->
        [colIndex1 \in 1..monthGridCols |->
            LET monthIndex == (colIndex1 - 1) * monthGridRows + (rowIndex1 - 1)
            IN  IF monthIndex + 1 > Len(monthsData) THEN <<>>
                ELSE LET days == monthsData[monthIndex + 1].days
                     IN  [innerRow1 \in 1..innerRows |->
                            [innerCol1 \in 1..innerCols |->
                                LET dayIndex == (innerRow1 - 1) * innerCols + (innerCol1 - 1)
                                IN  IF dayIndex + 1 > Len(days) THEN Placeholder
                                    ELSE days[dayIndex + 1]]]]]

\* The rendered month blocks: 4 rows of 3 months, each month 5 rows of 7 slots;
\* slot dayIndex shows monthData.days[dayIndex] or, when there is none, a
\* transparent placeholder.  A monthIndex with no monthData renders nothing.
monthBlocksOf(monthsData) ==
    [rowIndex1 \in 1..monthGridRows |->
        [colIndex1 \in 1..monthGridCols |->
            LET monthIndex == (rowIndex1 - 1) * monthGridCols + (colIndex1 - 1)
            IN  IF monthIndex + 1 > Len(monthsData) THEN <<>>
                ELSE LET days == monthsData[monthIndex + 1].days
                     IN  [innerRow1 \in 1..innerRows |->
                            [innerCol1 \in 1..innerCols |->
                                LET dayIndex == (innerRow1 - 1) * innerCols + (innerCol1 - 1)
                                IN  IF dayIndex + 1 > Len(days) THEN Placeholder
                                    ELSE days[dayIndex + 1]]]]]

(***************************************************************************)
(* Layout.  Lengths are exact rationals, kept in hundredths of a pixel     *)
(* (fontSize is in whole pixels).                                          *)
(***************************************************************************)
\* topPadding = height * 0.18 (0.20 in var4 and sydneyFlat), in percent.
TopPaddingPct(variant) == IF variant \in {"var4", "sydneyFlat"} THEN 20 ELSE 18
\* bottomTextSpace = height * 0.1 (0.08 on the canvas), in percent.
BottomTextPct(variant) == IF variant = "canvas" THEN 8 ELSE 10
\* gapBetweenGridAndText = height * 0.04 (the canvas has none), in percent.
GapPct(variant) == IF variant = "canvas" THEN 0 ELSE 4
\* availableWidth = width - sideMargin * 0.5 (sideMargin * 2 on the canvas), with
\* sideMargin = width * 0.06: the percent of width taken off.
SideCutPct(variant) == IF variant = "canvas" THEN 12 ELSE 3
\* fontSize = Math.floor(width / 32) (width / 30 on the canvas).
FontDivisor(variant) == IF variant = "canvas" THEN 30 ELSE 32

layoutOf(variant, width, height) ==
    LET topPadding == Scale(height, TopPaddingPct(variant))
        bottomTextSpace == Scale(height, BottomTextPct(variant))
        gapBetweenGridAndText == Scale(height, GapPct(variant))
        sideMargin == Scale(width, 6)
    IN  [topPadding |-> topPadding,
         bottomTextSpace |-> bottomTextSpace,
         gapBetweenGridAndText |-> gapBetweenGridAndText,
         sideMargin |-> sideMargin,
         availableWidth |-> Minus(Scale(width, 100), Scale(width, SideCutPct(variant))),
         availableHeight |->
             Minus(Minus(Minus(Scale(height, 100), topPadding), bottomTextSpace),
                   gapBetweenGridAndText),
         fontSize |-> FloorDiv(width, FontDivisor(variant))]

(***************************************************************************)
(* The canvas variant's horizontal placement of the dots, in exact         *)
(* rationals [n, d] in lowest terms with d > 0.                            *)
(***************************************************************************)
RECURSIVE GCD(_, _)
GCD(a, b) == IF b = 0 THEN a ELSE GCD(b, a % b)

Abs(n) == IF n < 0 THEN 0 - n ELSE n

Rat(n, d) ==
    LET g == GCD(Abs(n), Abs(d))
        sign == IF d < 0 THEN -1 ELSE 1
    IN  [n |-> sign * (n \div g), d |-> sign * (d \div g)]

RatAdd(x, y) == Rat(x.n * y.d + y.n * x.d, x.d * y.d)
RatSub(x, y) == Rat(x.n * y.d - y.n * x.d, x.d * y.d)
RatMul(x, y) == Rat(x.n * y.n, x.d * y.d)
RatDiv(x, y) == Rat(x.n * y.d, x.d * y.n)

\* const sideMargin = width * 0.06;
canvasSideMargin(width) == RatMul(width, Rat(6, 100))
\* const availableWidth = width - (sideMargin * 2);
canvasAvailableWidth(width, sideMargin) == RatSub(width, RatMul(sideMargin, Rat(2, 1)))
\* const spacingX = (availableWidth / (cols - 1)) * spacingScale, spacingScale = 0.8.
spacingXOf(availableWidth) == RatMul(RatDiv(availableWidth, Rat(cols - 1, 1)), Rat(8, 10))

\* gridWidth counting a spacing for every column.
gridWidthAllCols(spacingX) == RatMul(Rat(cols, 1), spacingX)

\* const gridWidth = (cols - 1) * spacingX;
gridWidthOf(spacingX) == RatMul(Rat(cols - 1, 1), spacingX)
\* const startX = (width - gridWidth) / 2;
startXOf(width, gridWidth) == RatDiv(RatSub(width, gridWidth), Rat(2, 1))
\* const x = rowStartX + col * spacingX, rowStartX being startX in every row:
\* the x of the dot centres of columns 0..cols-1 (dotX[col + 1]).
dotXOf(startX, spacingX) ==
    [c1 \in 1..cols |-> RatAdd(startX, RatMul(Rat(c1 - 1, 1), spacingX))]

NoPlacement == <<>>

\* The horizontal placement the canvas variant computes; a NaN width makes
\* every quantity NaN.  The other variants leave placement to the flex layout.
placementOf(variant, width) ==
    IF variant # "canvas" THEN NoPlacement
    ELSE IF width.nan THEN [nan |-> TRUE]
    ELSE LET w == Rat(width.v, 1)
             sideMargin == canvasSideMargin(w)
             availableWidth == canvasAvailableWidth(w, sideMargin)
             spacingX == spacingXOf(availableWidth)
             gridWidth == gridWidthOf(spacingX)
             startX == startXOf(w, gridWidth)
         IN  [nan |-> FALSE, width |-> w, sideMargin |-> sideMargin,
              availableWidth |-> availableWidth, spacingX |-> spacingX,
              gridWidth |-> gridWidth, startX |-> startX,
              dotX |-> dotXOf(startX, spacingX)]

(***************************************************************************)
(* What a handler computes from its parameters and one clock reading.      *)
(***************************************************************************)
\* The month variant's grid: monthLengths, monthsData and the rendered blocks.
monthGridOfData(monthLengths, monthsData) ==
    [monthLengths |-> monthLengths, monthsData |-> monthsData,
     blocks |-> monthBlocksOf(monthsData)]

monthGridOfLengths(variant, monthLengths, dayOfYear) ==
    monthGridOfData(monthLengths, monthsDataOf(variant, monthLengths, dayOfYear))

\* The grid of a variant: dotRows, the canvas' drawn dots, or the month blocks.
gridOfRows(variant, year, totalDays, dayOfYear, extraDots, totalRows) ==
    CASE variant \in FlatVariants ->
             [extraDots |-> extraDots, totalRows |-> totalRows,
              dotRows |-> dotRowsOf(dotsOf(variant, totalDays, dayOfYear),
                                    totalDays, extraDots, totalRows)]
      [] variant = "canvas" ->
             [extraDots |-> extraDots, totalRows |-> totalRows,
              drawn |-> drawnOf(variant, totalDays, dayOfYear, extraDots, totalRows)]
      [] variant = "daysMonth" ->
             monthGridOfLengths(variant, monthLengthsOf(year), dayOfYear)

gridOfExtra(variant, year, totalDays, dayOfYear, extraDots) ==
    gridOfRows(variant, year, totalDays, dayOfYear, extraDots, totalRowsOf(extraDots))

gridOf(variant, year, totalDays, dayOfYear) ==
    gridOfExtra(variant, year, totalDays, dayOfYear, extraDotsOf(totalDays))

\* captionOf showing the days before today as done.
captionDoneExclusive(variant, dayOfYear, totalDays, daysLeft, percentage) ==
    CASE variant = "canvas" -> <<<<daysLeft + 1, "d left">>, <<percentage, "%">>>>
      [] variant = "var4" -> <<<<dayOfYear - 1, "d done">>, <<totalDays, "d total">>>>
      [] OTHER -> <<<<dayOfYear - 1, "d done">>, <<daysLeft + 1, "d left">>,
                    <<percentage, "%">>>>

\* The caption's computed segments, in display order.
captionOf(variant, dayOfYear, totalDays, daysLeft, percentage) ==
    CASE variant = "canvas" -> <<<<daysLeft, "d left">>, <<percentage, "%">>>>
      [] variant = "var4" -> <<<<dayOfYear, "d done">>, <<totalDays, "d total">>>>
      [] OTHER -> <<<<dayOfYear, "d done">>, <<daysLeft, "d left">>, <<percentage, "%">>>>

\* The size handed to the rasterizer: createCanvas(width, height) or the
\* ImageResponse options { width, height }.
imageOf(width, height) == [width |-> width, height |-> height]

\* The plan, given the calendar progress.
planOfProgress(variant, width, height, now, year, dayOfYear, totalDays, daysLeft, percentage) ==
    [now |-> now, year |-> year, dayOfYear |-> dayOfYear, totalDays |-> totalDays,
     daysLeft |-> daysLeft, percentage |-> percentage,
     layout |-> layoutOf(variant, width, height),
     placement |-> placementOf(variant, width),
     grid |-> gridOf(variant, year, totalDays, dayOfYear),
     caption |-> captionOf(variant, dayOfYear, totalDays, daysLeft, percentage),
     image |-> imageOf(width, height)]

planOfTotal(variant, width, height, now, year, dayOfYear, totalDays) ==
    planOfProgress(variant, width, height, now, year, dayOfYear, totalDays,
                   daysLeftOf(totalDays, dayOfYear), percentageOf(dayOfYear, totalDays))

planOfDate(variant, width, height, now, year, dayOfYear) ==
    planOfTotal(variant, width, height, now, year, dayOfYear, totalDaysOf(year))

\* Everything a handler computes after reading the clock.
planOf(variant, zone, width, height, now) ==
    planOfDate(variant, width, height, now,
               yearOf(variant, zone, now), dayOfYearOf(variant, zone, now))

(***************************************************************************)
(* Requests.                                                               *)
(***************************************************************************)
\* The calls of GET, numbered in the order in which they start.
ReqIds == 1..NumRequests

NoPlan == <<>>
NoResponse == <<>>

\* process.env.NODE_ENV of the deployment, which @vercel/og reads.
NodeEnvs == {"development", "production"}

\* new ImageResponse(element, { width, height, fonts }): the options carry no
\* status and no headers, so the response has the default status and the
\* headers @vercel/og sets itself.
ImageResponseOf(nodeEnv) ==
    [status |-> 200,
     headers |-> [contentType |-> "image/png",
                  cacheControl |-> IF nodeEnv = "development"
                                   THEN "no-cache, no-store"
                                   ELSE "public, immutable, no-transform, max-age=31536000"]]

\* new NextResponse(body, { status: 200, headers: { ... } }) of the canvas variant.
CanvasResponse ==
    [status |-> 200,
     headers |-> [contentType |-> "image/png",
                  cacheControl |-> "public, max-age=0, must-revalidate"]]

Idle ==
    [pc |-> "idle", variant |-> "none", query |-> <<>>, width |-> NaN, height |-> NaN,
     fonts |-> [f \in Fonts |-> "none"], plan |-> NoPlan, response |-> NoResponse]

Init ==
    /\ tz \in Zones
    /\ req = [i \in ReqIds |-> Idle]

\* The local variables of call i, which the code after the await reads.
\* A module-level copy shared by the calls would hold those of the latest call.
closureOfLatest(i) ==
    LET latest == CHOOSE j \in ReqIds :
                      /\ req[j].pc # "idle"
                      /\ \A k \in ReqIds : req[k].pc # "idle" => k <= j
    IN  req[latest]

\* width, height and the other consts are declared inside GET: each call has
\* its own.
closureOf(i) == req[i]

\* A font variant's GET up to its await: the size parameters are parsed and the
\* two font fetches are started.
StartGET(i, variants, queries) ==
    /\ req[i].pc = "idle"
    /\ \A j \in ReqIds : j < i => req[j].pc # "idle"
    /\ \E variant \in variants, query \in queries :
           req' = [req EXCEPT ![i] =
                      [pc |-> "awaiting", variant |-> variant, query |-> query,
                       width |-> ParseWidth(query), height |-> ParseHeight(query),
                       fonts |-> [f \in Fonts |-> "pending"], plan |-> NoPlan,
                       response |-> NoResponse]]
    /\ UNCHANGED tz

\* fetch(...).then(res => res.arrayBuffer()) fulfils for one font.
FontResolves(i) ==
    /\ req[i].pc = "awaiting"
    /\ \E f \in Fonts :
           /\ req[i].fonts[f] = "pending"
           /\ req' = [req EXCEPT ![i].fonts[f] = "loaded"]
    /\ UNCHANGED tz

\* The fetch of one font rejects.
FontRejects(i) ==
    /\ req[i].pc = "awaiting"
    /\ \E f \in Fonts :
           /\ req[i].fonts[f] = "pending"
           /\ req' = [req EXCEPT ![i].fonts[f] = "failed"]
    /\ UNCHANGED tz

\* Promise.allSettled in place of Promise.all: settled once no fetch is pending.
PromiseAllSettled(fonts) == \A f \in Fonts : fonts[f] # "pending"

\* Promise.all([...]) is fulfilled when every fetch is fulfilled,
PromiseAllFulfilled(fonts) == \A f \in Fonts : fonts[f] = "loaded"
\* and rejected as soon as one of them is rejected.
PromiseAllRejected(fonts) == \E f \in Fonts : fonts[f] = "failed"

\* Promise.all fulfilled: the rest of the handler runs to its return.
ResumeGET(i, instants, nodeEnvs) ==
    /\ req[i].pc = "awaiting"
    /\ PromiseAllFulfilled(req[i].fonts)
    /\ \E now \in instants, nodeEnv \in nodeEnvs :
           req' = [req EXCEPT ![i].pc = "done",
                              ![i].plan = planOf(closureOf(i).variant, tz,
                                                 closureOf(i).width,
                                                 closureOf(i).height, now),
                              ![i].response = ImageResponseOf(nodeEnv)]
    /\ UNCHANGED tz

\* Promise.all rejected: the await throws and the handler returns nothing.
RejectGET(i) ==
    /\ req[i].pc = "awaiting"
    /\ PromiseAllRejected(req[i].fonts)
    /\ req' = [req EXCEPT ![i].pc = "failed"]
    /\ UNCHANGED tz

\* The canvas variant's GET: it awaits nothing and runs in one step.
CanvasGET(i, queries, instants) ==
    /\ req[i].pc = "idle"
    /\ \A j \in ReqIds : j < i => req[j].pc # "idle"
    /\ \E query \in queries, now \in instants :
           req' = [req EXCEPT ![i] =
                      [pc |-> "done", variant |-> "canvas", query |-> query,
                       width |-> ParseWidth(query), height |-> ParseHeight(query),
                       fonts |-> [f \in Fonts |-> "none"],
                       plan |-> planOf("canvas", tz, ParseWidth(query),
                                       ParseHeight(query), now),
                       response |-> CanvasResponse]]
    /\ UNCHANGED tz

(***************************************************************************)
(* Inputs.                                                                 *)
(***************************************************************************)
Years == 2023..(2022 + NumYears)

\* The clock readings: every day of the years at 13:00Z, the last hour of the
\* day at UTC+10 and the first at UTC+11, and the first day of every month at
\* 04:00Z, the first hour of the day in New York's summer.
DenseInstants ==
    {DateUTC(y, 0, 1) + d * HoursPerDay + 13 : y \in Years, d \in 0..365}
    \cup {DateUTC(y, m, 1) + 4 : y \in Years, m \in 0..11}

Param(name, value) == [name |-> name, value |-> value]

WidthValues ==
    {<<"8", "0", "0">>, <<"3", "7", "5">>, <<>>, <<"a", "b", "c">>, <<"3", "9", "0", "p", "x">>}
HeightValues == {<<"1", "6", "0", "0">>, <<>>, <<"t", "a", "l", "l">>, <<"8", "4", "4", ".", "5">>}

\* Queries with and without each of the two parameters.
Queries ==
    {<<>>}
    \cup {<<Param("width", w)>> : w \in WidthValues}
    \cup {<<Param("height", h)>> : h \in HeightValues}
    \cup {<<Param("width", w), Param("height", h)>> : w \in WidthValues, h \in HeightValues}

\* The clock readings of the specification that varies the query.
QueryInstants ==
    {DateUTC(y, m, 15) + 13 : y \in Years, m \in {1, 7}}

\* Years around the century years, where the clauses of the leap-year rule
\* differ.
WideSpan == 4
WideYears ==
    Years \cup {c + k : c \in {2100, 2200, 2400}, k \in {0 - WideSpan, -1, 0, 1, WideSpan}}

\* The first and last days of January and December of those years.
WideInstants ==
    {DateUTC(y, m, DaysInMonth(y, m) - d) + 13 :
        y \in WideYears, m \in {0, 11}, d \in {0, 30}}

(***************************************************************************)
(* Specifications.                                                         *)
(***************************************************************************)
\* One request of the default size, on every day of the years.
Next ==
    \/ StartGET(1, FontVariants, {<<>>})
    \/ FontResolves(1)
    \/ FontRejects(1)
    \/ ResumeGET(1, DenseInstants, {"production"})
    \/ RejectGET(1)
    \/ CanvasGET(1, {<<>>}, DenseInstants)

Spec == Init /\ [][Next]_vars

\* One request of the default size, in the years around the century years.
NextYears ==
    \/ StartGET(1, FontVariants, {<<>>})
    \/ FontResolves(1)
    \/ FontRejects(1)
    \/ ResumeGET(1, WideInstants, {"production"})
    \/ RejectGET(1)
    \/ CanvasGET(1, {<<>>}, WideInstants)

SpecYears == Init /\ [][NextYears]_vars

\* One request with any of the queries.
NextQuery ==
    \/ StartGET(1, FontVariants, Queries)
    \/ FontResolves(1)
    \/ FontRejects(1)
    \/ ResumeGET(1, QueryInstants, {"production"})
    \/ RejectGET(1)
    \/ CanvasGET(1, Queries, QueryInstants)

SpecQuery == Init /\ [][NextQuery]_vars

\* One request of the default size, in a development or a production deployment.
NextEnv ==
    \/ StartGET(1, FontVariants, {<<>>})
    \/ FontResolves(1)
    \/ FontRejects(1)
    \/ ResumeGET(1, QueryInstants, NodeEnvs)
    \/ RejectGET(1)
    \/ CanvasGET(1, {<<>>}, QueryInstants)

SpecEnv == Init /\ [][NextEnv]_vars

\* The font variant, the queries and the clock readings of the concurrent
\* requests.
ConcVariants == {"daysMonth"}
ConcQueries == {<<Param("width", <<"3", "7", "5">>)>>}
ConcInstants == {DateUTC(2024, 1, 9) + 13, DateUTC(2024, 11, 31) + 4}

\* Several requests in flight, their handlers interleaved at the await.
NextConc ==
    \E i \in ReqIds :
        \/ StartGET(i, ConcVariants, ConcQueries)
        \/ FontResolves(i)
        \/ FontRejects(i)
        \/ ResumeGET(i, ConcInstants, {"production"})
        \/ RejectGET(i)
        \/ CanvasGET(i, ConcQueries, ConcInstants)

SpecConc == Init /\ [][NextConc]_vars

(***************************************************************************)
(* Properties.                                                             *)
(***************************************************************************)
\* The request every specification here runs, and whether it has returned.
R == req[1]
Done == R.pc = "done"

\* The zone in whose calendar the request's variant resolves the date.
ResolvedZone == IF R.variant \in SydneyVariants THEN "Australia/Sydney" ELSE tz

\* The calendar date of the request's clock reading, in the resolved calendar.
ResolvedDate == CivilIn(ResolvedZone, R.plan.now)

\* The 1-based ordinal of a calendar date within its year:
\* (midnight of the date - midnight of Jan 1) / one day + 1.
OrdinalOf(civil) ==
    ((DateUTC(civil.year, civil.month - 1, civil.day) - DateUTC(civil.year, 0, 1))
        \div HoursPerDay) + 1

\* The cells a plan renders, each with its place, day number and colour.
FlatCells(dotRows) ==
    UNION {{[at |-> <<r, c>>, day |-> dotRows[r][c].day, color |-> dotRows[r][c].color] :
               c \in 1..Len(dotRows[r])} : r \in 1..Len(dotRows)}

CanvasCells(drawn) ==
    {[at |-> <<drawn[k].row + 1, drawn[k].col + 1>>, day |-> drawn[k].day,
      color |-> drawn[k].color] : k \in 1..Len(drawn)}

MonthCells(blocks) ==
    UNION {UNION {{[at |-> <<ro, co, ir, ic>>, day |-> blocks[ro][co][ir][ic].day,
                    color |-> blocks[ro][co][ir][ic].color] :
                       ic \in {k \in 1..Len(blocks[ro][co][ir]) :
                                  blocks[ro][co][ir][k] # Placeholder}} :
                     ir \in 1..Len(blocks[ro][co])} :
             ro \in 1..Len(blocks), co \in 1..monthGridCols}

RenderedCells ==
    CASE R.variant \in FlatVariants -> FlatCells(R.plan.grid.dotRows)
      [] R.variant = "canvas" -> CanvasCells(R.plan.grid.drawn)
      [] R.variant = "daysMonth" -> MonthCells(R.plan.grid.blocks)

\* C1: in every variant, at every instant and under every time zone rule,
\* dayOfYear is the 1-based ordinal of the current calendar date in the resolved
\* calendar, never one less or one more.
C1_DayOfYearIsOrdinal == Done => R.plan.dayOfYear = OrdinalOf(ResolvedDate)

\* C2: totalDays is 366 exactly when Y%4 = 0 and (Y%100 # 0 or Y%400 = 0), and
\* 365 otherwise, Y being the year in which dayOfYear was counted: the year of
\* the current date in the resolved calendar.
C2_TotalDaysLeapRule ==
    Done =>
        /\ R.plan.year = ResolvedDate.year
        /\ R.plan.totalDays \in {365, 366}
        /\ R.plan.totalDays = 366 <=>
               (R.plan.year % 4 = 0 /\ (R.plan.year % 100 # 0 \/ R.plan.year % 400 = 0))

\* C2's case: a century year that is not a leap year.
C2_Witness == Done /\ R.plan.year = 2100 /\ R.plan.totalDays = 365

\* C3: every day 1..totalDays has a cell, and a cell is coloured Past when its
\* day is before dayOfYear, Current when it is dayOfYear and Future when it is
\* after, in the variant's palette; the three colours of a palette differ.
C3_CellColoring ==
    Done =>
        LET cells == RenderedCells
            palette == Palette(R.variant)
        IN  /\ Cardinality({palette.past, palette.current, palette.future}) = 3
            /\ 1..R.plan.totalDays \subseteq {cell.day : cell \in cells}
            /\ \A cell \in cells :
                   /\ cell.day < R.plan.dayOfYear => cell.color = palette.past
                   /\ cell.day = R.plan.dayOfYear => cell.color = palette.current
                   /\ cell.day > R.plan.dayOfYear => cell.color = palette.future

\* C3's case: a month grid with past, current and future days.
C3_Witness ==
    /\ Done
    /\ R.variant = "daysMonth"
    /\ 1 < R.plan.dayOfYear
    /\ R.plan.dayOfYear < R.plan.totalDays

\* C4: when 1 <= dayOfYear <= totalDays, exactly one rendered cell has the
\* Current colour, and it is the cell of day dayOfYear.
C4_ExactlyOneCurrent ==
    (Done /\ 1 <= R.plan.dayOfYear /\ R.plan.dayOfYear <= R.plan.totalDays) =>
        LET current == {cell \in RenderedCells : cell.color = Palette(R.variant).current}
        IN  /\ Cardinality(current) = 1
            /\ \A cell \in current : cell.day = R.plan.dayOfYear

\* C4's case: the current day lies in the partial last row of a flat grid.
C4_Witness ==
    /\ Done
    /\ R.variant \in FlatVariants
    /\ R.plan.dayOfYear > cols * rows
    /\ R.plan.dayOfYear <= R.plan.totalDays

\* C5: for dayOfYear in 1..totalDays and totalDays 365 or 366, daysLeft is
\* totalDays - dayOfYear, so is not negative, and percentage is in 0..100.
C5_DaysLeftAndPercentageRange ==
    (/\ Done
     /\ R.plan.totalDays \in {365, 366}
     /\ R.plan.dayOfYear \in 1..R.plan.totalDays) =>
        /\ R.plan.dayOfYear + R.plan.daysLeft = R.plan.totalDays
        /\ R.plan.daysLeft >= 0
        /\ R.plan.percentage \in 0..100

\* C5's case: the last day of a year.
C5_Witness == Done /\ R.plan.dayOfYear = R.plan.totalDays /\ R.plan.daysLeft = 0

\* C6: percentage is the integer nearest to 100 * dayOfYear / totalDays, a half
\* rounded away from zero: 2*T*p - T <= 200*d < 2*T*p + T.
C6_PercentageNearest ==
    (Done /\ R.plan.dayOfYear \in 1..R.plan.totalDays) =>
        /\ 2 * R.plan.totalDays * R.plan.percentage - R.plan.totalDays
               <= 200 * R.plan.dayOfYear
        /\ 200 * R.plan.dayOfYear
               < 2 * R.plan.totalDays * R.plan.percentage + R.plan.totalDays

\* C6's case: a quotient that rounds up (100 * 2 / 365 = 0.55 gives 1).
C6_Witness == Done /\ R.plan.dayOfYear = 2 /\ R.plan.totalDays = 365 /\ R.plan.percentage = 1

\* The cells of row r (0-based) of a flat grid, left to right, as day numbers.
FlatRowDays(r) ==
    IF R.variant = "canvas"
    THEN LET drawn == R.plan.grid.drawn
             inRow == SelectSeq([k \in 1..Len(drawn) |-> k], LAMBDA k : drawn[k].row = r)
         IN  [c \in 1..Len(inRow) |-> [col |-> drawn[inRow[c]].col, day |-> drawn[inRow[c]].day]]
    ELSE IF r + 1 > Len(R.plan.grid.dotRows) THEN <<>>
    ELSE [c \in 1..Len(R.plan.grid.dotRows[r + 1]) |->
             [col |-> c - 1, day |-> R.plan.grid.dotRows[r + 1][c].day]]

\* The number of rows a flat grid renders.
FlatRowCount ==
    IF R.variant = "canvas"
    THEN Cardinality({R.plan.grid.drawn[k].row : k \in 1..Len(R.plan.grid.drawn)})
    ELSE Len(R.plan.grid.dotRows)

\* C7: a flat grid of 365 or 366 days has rows 0..23 of 15 cells and a last row
\* of extraCells cells packed from column 0; the cell at (r, c) is day
\* 15*r + c + 1, so the cells are the days 1..totalDays, once each and in order.
C7_FlatGridCells ==
    (Done /\ R.variant \in FlatVariants \cup {"canvas"} /\ R.plan.totalDays \in {365, 366}) =>
        /\ FlatRowCount = rows + 1
        /\ \A r \in 0..rows :
               LET row == FlatRowDays(r)
               IN  /\ Len(row) = IF r < rows THEN cols ELSE R.plan.totalDays - cols * rows
                   /\ \A c \in 1..Len(row) :
                          row[c].col = c - 1 /\ row[c].day = cols * r + (c - 1) + 1
        /\ Cardinality(RenderedCells) = R.plan.totalDays

\* C7's case: the canvas grid of a 365-day year, with its last row of 5 cells.
C7_Witness ==
    /\ Done
    /\ R.variant = "canvas"
    /\ R.plan.totalDays = 365
    /\ Len(FlatRowDays(rows)) = 5

RECURSIVE SumSeq(_)
SumSeq(q) == IF q = <<>> THEN 0 ELSE Head(q) + SumSeq(Tail(q))

\* C8: the month lengths are 31,28|29,31,30,31,30,31,31,30,31,30,31, February
\* having 29 exactly in leap years; they sum to totalDays; month m's days carry
\* the absolute day numbers from 1 + (the lengths of the months before m) on, in
\* order; every absolute day 1..totalDays is in exactly one month.
C8_MonthsPartitionYear ==
    (Done /\ R.variant = "daysMonth") =>
        LET lengths == R.plan.grid.monthLengths
            months == R.plan.grid.monthsData
        IN  /\ lengths = <<31, IF DaysInYear(R.plan.year) = 366 THEN 29 ELSE 28,
                           31, 30, 31, 30, 31, 31, 30, 31, 30, 31>>
            /\ SumSeq(lengths) = R.plan.totalDays
            /\ Len(months) = 12
            /\ \A m \in 1..Len(months) :
                   /\ Len(months[m].days) = lengths[m]
                   /\ \A i \in 1..Len(months[m].days) :
                          months[m].days[i].day = SumSeq(SubSeq(lengths, 1, m - 1)) + i
            /\ LET placed == UNION {{<<m, months[m].days[i].day>> :
                                         i \in 1..Len(months[m].days)} :
                                      m \in 1..Len(months)}
               IN  /\ {p[2] : p \in placed} = 1..R.plan.totalDays
                   /\ Cardinality(placed) = R.plan.totalDays

\* C8's case: a leap year, on 29 February (day 60).
C8_Witness ==
    /\ Done
    /\ R.variant = "daysMonth"
    /\ R.plan.totalDays = 366
    /\ R.plan.dayOfYear = 60
    /\ Len(R.plan.grid.monthsData[2].days) = 29

\* C9: with 15 columns and 24 rows, extraCells = max(totalDays - 360, 0),
\* totalRows = rows + (1 if extraCells > 0 else 0) and 360 + extraCells >=
\* totalDays: 366 days give 25 rows, the last of 6 cells; 365 days give 25 rows,
\* the last of 5 cells.
C9_GridSpec ==
    (Done /\ R.variant \in FlatVariants \cup {"canvas"}) =>
        LET extra == R.plan.grid.extraDots
            total == R.plan.grid.totalRows
        IN  /\ extra >= 0 /\ extra >= R.plan.totalDays - 360
            /\ extra = 0 \/ extra = R.plan.totalDays - 360
            /\ total = 24 + (IF extra > 0 THEN 1 ELSE 0)
            /\ 15 * 24 + extra >= R.plan.totalDays
            /\ R.plan.totalDays = 366 =>
                   total = 25 /\ extra = 6 /\ FlatRowCount = 25 /\ Len(FlatRowDays(24)) = 6
            /\ R.plan.totalDays = 365 =>
                   total = 25 /\ extra = 5 /\ FlatRowCount = 25 /\ Len(FlatRowDays(24)) = 5

\* C9's case: a flat grid in a leap year.
C9_Witness ==
    /\ Done
    /\ R.variant \in FlatVariants
    /\ R.plan.totalDays = 366
    /\ R.plan.grid.totalRows = 25

\* Whether the request's query holds no parameter of that name.
Missing(name) == \A k \in 1..Len(R.query) : R.query[k].name # name

\* C10: a missing width is 1170 and a missing height is 2532, in the layout
\* arithmetic and in the size of the image, each whether or not the other
\* parameter is given.
C10_DefaultSize ==
    /\ (R.pc \in {"awaiting", "failed", "done"} /\ Missing("width")) => R.width = Num(1170)
    /\ (R.pc \in {"awaiting", "failed", "done"} /\ Missing("height")) => R.height = Num(2532)
    /\ (Done /\ Missing("width")) =>
           /\ R.plan.image.width = Num(1170)
           /\ R.plan.layout.sideMargin = Num(7020)
           /\ R.plan.layout.availableWidth =
                  Num(IF R.variant = "canvas" THEN 102960 ELSE 113490)
           /\ R.plan.layout.fontSize = Num(IF R.variant = "canvas" THEN 39 ELSE 36)
    /\ (Done /\ Missing("height")) =>
           /\ R.plan.image.height = Num(2532)
           /\ R.plan.layout.topPadding =
                  Num(IF R.variant \in {"var4", "sydneyFlat"} THEN 50640 ELSE 45576)
           /\ R.plan.layout.bottomTextSpace =
                  Num(IF R.variant = "canvas" THEN 20256 ELSE 25320)
           /\ R.plan.layout.availableHeight =
                  Num(CASE R.variant = "canvas" -> 187368
                        [] R.variant \in {"var4", "sydneyFlat"} -> 167112
                        [] OTHER -> 172176)

\* C10's case: width is missing while height is given as 1600.
C10_Witness ==
    /\ Done
    /\ Missing("width")
    /\ ~Missing("height")
    /\ R.height = Num(1600)
    /\ R.plan.image = [width |-> Num(1170), height |-> Num(1600)]

\* Whether a text is a decimal integer: digits only, at least one.
IsIntegerText(s) == s # <<>> /\ \A k \in 1..Len(s) : IsDigit(s[k])

\* Whether the request's query holds the parameter with a value that is not an
\* integer.
Malformed(name) == ~Missing(name) /\ ~IsIntegerText(SearchParamsGet(R.query, name))

\* The lengths of a plan's layout.
LayoutQuantities ==
    {R.plan.layout.topPadding, R.plan.layout.bottomTextSpace,
     R.plan.layout.gapBetweenGridAndText, R.plan.layout.sideMargin,
     R.plan.layout.availableWidth, R.plan.layout.availableHeight,
     R.plan.layout.fontSize}

\* C11: a width or height that is present but malformed is replaced by the
\* default, 1170 for width and 2532 for height, in every variant, and no layout
\* quantity is computed from a not-a-number dimension.
C11_MalformedFallsBack ==
    /\ (R.pc \in {"awaiting", "failed", "done"} /\ Malformed("width")) => R.width = Num(1170)
    /\ (R.pc \in {"awaiting", "failed", "done"} /\ Malformed("height")) => R.height = Num(2532)
    /\ Done => \A q \in LayoutQuantities : ~q.nan

\* C12: every variant's successful response has status 200, Content-Type
\* image/png and Cache-Control 'public, max-age=0, must-revalidate', the canvas
\* variant and the ImageResponse variants alike.
C12_ResponseHeaders ==
    Done =>
        /\ R.response # NoResponse
        /\ R.response.status = 200
        /\ R.response.headers.contentType = "image/png"
        /\ R.response.headers.cacheControl = "public, max-age=0, must-revalidate"

\* The UTC calendar date of the instant t + 10 hours.
DateAtUTCPlus10(t) == CivilOfDay((t + 10) \div HoursPerDay)

\* C13: the variants with the fixed time zone resolve the date at UTC+10 all
\* year round: their year and their day within the year (so their month and
\* day) are those of the UTC calendar date of now + 10 hours, whatever the
\* server's time zone and the time of year.
C13_FixedUTCPlus10 ==
    (Done /\ R.variant \in SydneyVariants) =>
        /\ R.plan.year = DateAtUTCPlus10(R.plan.now).year
        /\ R.plan.dayOfYear = OrdinalOf(DateAtUTCPlus10(R.plan.now))

\* The last cell a plan renders: the last cell of the last row of a flat grid,
\* the last dot the canvas draws, the last day slot of the December block.
LastCell ==
    CASE R.variant \in FlatVariants ->
             LET dotRows == R.plan.grid.dotRows
                 last == dotRows[Len(dotRows)]
             IN  [at |-> <<Len(dotRows), Len(last)>>, color |-> last[Len(last)].color]
      [] R.variant = "canvas" ->
             LET drawn == R.plan.grid.drawn
             IN  [at |-> <<drawn[Len(drawn)].row + 1, drawn[Len(drawn)].col + 1>>,
                  color |-> drawn[Len(drawn)].color]
      [] R.variant = "daysMonth" ->
             LET december == R.plan.grid.blocks[monthGridRows][monthGridCols]
                 slots == {<<ir, ic>> \in (1..innerRows) \X (1..innerCols) :
                              december[ir][ic] # Placeholder}
                 at == CHOOSE p \in slots :
                           \A q \in slots : q[1] < p[1] \/ (q[1] = p[1] /\ q[2] <= p[2])
             IN  [at |-> <<monthGridRows, monthGridCols, at[1], at[2]>>,
                  color |-> december[at[1]][at[2]].color]

\* C14: on the last day of a year of 365 or 366 days, daysLeft is 0, percentage
\* is 100, the last cell of the grid (row 25 of the flat grid, at column 5 or 6;
\* the 31st slot of the December block) is Current, every other cell is Past and
\* no cell is Future.
C14_LastDayOfYear ==
    (Done /\ R.plan.totalDays \in {365, 366} /\ R.plan.dayOfYear = R.plan.totalDays) =>
        LET palette == Palette(R.variant)
            cells == RenderedCells
        IN  /\ R.plan.daysLeft = 0
            /\ R.plan.percentage = 100
            /\ LastCell.color = palette.current
            /\ LastCell.at = IF R.variant = "daysMonth" THEN <<4, 3, 5, 3>>
                             ELSE <<25, R.plan.totalDays - 360>>
            /\ \A cell \in cells :
                   /\ cell.color # palette.future
                   /\ cell.at # LastCell.at => cell.color = palette.past
            /\ Cardinality(cells) = R.plan.totalDays

\* C14's case: 31 December of a leap year in the month grid.
C14_Witness ==
    /\ Done
    /\ R.variant = "daysMonth"
    /\ R.plan.totalDays = 366
    /\ R.plan.dayOfYear = 366
    /\ R.plan.grid.blocks[4][3][5][3].color = Palette("daysMonth").current

\* The slot of day j of month mi (both 1-based) in the rendered month blocks.
SlotOf(blocks, mi, j) ==
    blocks[((mi - 1) \div monthGridCols) + 1][((mi - 1) % monthGridCols) + 1]
          [((j - 1) \div innerCols) + 1][((j - 1) % innerCols) + 1]

\* C15: in the month grid, when dayOfYear in 1..totalDays is day k of month m of
\* the calendar, every day of the months before m is Past, every day of the
\* months after m is Future, and in month m days 1..k-1 are Past, day k is
\* Current and the days after k are Future.
C15_MonthBlockColoring ==
    (Done /\ R.variant = "daysMonth" /\ R.plan.dayOfYear \in 1..R.plan.totalDays) =>
        LET today == CivilOfOrdinal(R.plan.year, R.plan.dayOfYear - 1)
            palette == Palette(R.variant)
        IN  \A mi \in 1..12 :
                \A j \in 1..DaysInMonth(R.plan.year, mi - 1) :
                    SlotOf(R.plan.grid.blocks, mi, j).color =
                        IF mi < today.month \/ (mi = today.month /\ j < today.day)
                        THEN palette.past
                        ELSE IF mi = today.month /\ j = today.day
                        THEN palette.current
                        ELSE palette.future

\* C15's case: 9 February 2024, day 40 of the year.
C15_Witness ==
    /\ Done
    /\ R.variant = "daysMonth"
    /\ R.plan.year = 2024
    /\ R.plan.dayOfYear = 40
    /\ SlotOf(R.plan.grid.blocks, 2, 9).color = Palette("daysMonth").current
    /\ SlotOf(R.plan.grid.blocks, 1, 31).color = Palette("daysMonth").past
    /\ SlotOf(R.plan.grid.blocks, 3, 1).color = Palette("daysMonth").future

\* C16: in the canvas variant, for a width > 0, startX + gridWidth + startX is
\* the width, and the dots of a full row are centred: the first dot is as far
\* from the left edge as the last dot is from the right edge, and the dots are
\* one spacingX apart.
C16_CanvasCentered ==
    (Done /\ R.variant = "canvas" /\ ~R.width.nan /\ R.width.v > 0) =>
        LET p == R.plan.placement
            width == Rat(R.width.v, 1)
        IN  /\ ~p.nan
            /\ RatAdd(RatAdd(p.startX, p.gridWidth), p.startX) = width
            /\ Len(p.dotX) = cols
            /\ p.dotX[1] = RatSub(width, p.dotX[cols])
            /\ \A c \in 1..(cols - 1) : RatSub(p.dotX[c + 1], p.dotX[c]) = p.spacingX
            /\ p.dotX[1].n > 0

\* C16's case: an odd width, where startX is not a whole number of pixels.
C16_Witness ==
    /\ Done
    /\ R.variant = "canvas"
    /\ R.width = Num(375)
    /\ R.plan.placement.startX = Rat(111, 2)
    /\ R.plan.placement.gridWidth = Rat(264, 1)

\* What request i returns when it runs alone with its own query, its own
\* clock reading and the deployment's time zone.
AloneResult(i) ==
    planOf(req[i].variant, tz, ParseWidth(req[i].query), ParseHeight(req[i].query),
           req[i].plan.now)

C18_FontFailurePropagates ==
    /\ (\E f \in Fonts : R.fonts[f] = "failed") =>
           /\ R.variant \in FontVariants
           /\ R.pc \in {"awaiting", "failed"}
           /\ R.response = NoResponse
           /\ R.plan = NoPlan
    /\ R.pc = "failed" => \E f \in Fonts : R.fonts[f] = "failed"
    /\ (R.response # NoResponse /\ R.variant \in FontVariants) =>
           \A f \in Fonts : R.fonts[f] = "loaded"

\* C18's case: the regular font loaded, the italic font failed, and the handler
\* has thrown.
C18_Witness ==
    /\ R.pc = "failed"
    /\ R.fonts["regular"] = "loaded"
    /\ R.fonts["italic"] = "failed"
    /\ R.response = NoResponse

\* C19: the month grid is 4 rows of 3 blocks, the block at row-major place mi
\* (0..11) being month mi of the calendar; every block has 5 rows of 7 slots;
\* slot k (0..34, row-major) of month mi is day k + 1 of that month when
\* k < daysInMonth and a transparent placeholder otherwise, so a month has
\* 35 - daysInMonth placeholders, all after its last day, and no day is dropped.
C19_MonthBlockSlots ==
    (Done /\ R.variant = "daysMonth") =>
        LET blocks == R.plan.grid.blocks
        IN  /\ Len(blocks) = 4
            /\ \A ro \in 1..Len(blocks) : Len(blocks[ro]) = 3
            /\ \A mi \in 0..11 :
                   LET block == blocks[(mi \div 3) + 1][(mi % 3) + 1]
                       len == DaysInMonth(R.plan.year, mi)
                       first == DaysBeforeMonth(R.plan.year, mi)
                   IN  /\ len \in 28..31
                       /\ Len(block) = 5
                       /\ \A ir \in 1..Len(block) : Len(block[ir]) = 7
                       /\ \A k \in 0..34 :
                              LET slot == block[(k \div 7) + 1][(k % 7) + 1]
                              IN  IF k < len
                                  THEN slot.color # "transparent" /\ slot.day = first + k + 1
                                  ELSE slot = Placeholder
                       /\ Cardinality({k \in 0..34 :
                              block[(k \div 7) + 1][(k % 7) + 1].color = "transparent"})
                              = 35 - len

\* C19's case: February of a leap year, whose 29th slot is a day and whose 30th
\* slot is a placeholder.
C19_Witness ==
    /\ Done
    /\ R.variant = "daysMonth"
    /\ R.plan.year = 2024
    /\ R.plan.grid.blocks[1][2][5][1].day = 60
    /\ R.plan.grid.blocks[1][2][5][2] = Placeholder

\* The rows of dots a plan renders, top to bottom: the rows of the flat grid,
\* the canvas' dots in drawing order, the slot rows of the month blocks.
RenderedRows ==
    CASE R.variant \in FlatVariants -> R.plan.grid.dotRows
      [] R.variant = "canvas" -> <<R.plan.grid.drawn>>
      [] R.variant = "daysMonth" ->
             [n \in 1..(monthGridRows * monthGridCols * innerRows) |->
                 R.plan.grid.blocks[(((n - 1) \div innerRows) \div monthGridCols) + 1]
                                   [(((n - 1) \div innerRows) % monthGridCols) + 1]
                                   [((n - 1) % innerRows) + 1]]

\* The number of dots of a colour in rows of dots.
CellCount(dotRows, color) ==
    SumSeq([r \in 1..Len(dotRows) |->
               Len(SelectSeq(dotRows[r], LAMBDA dot : dot.color = color))])

\* The numbers a plan's caption shows with a label.
Shown(label) == {R.plan.caption[k][1] : k \in {j \in 1..Len(R.plan.caption) :
                                                  R.plan.caption[j][2] = label}}

\* C20: in every variant, for dayOfYear in 1..totalDays, the caption agrees with
\* the grid: a number shown as 'd left' is the number of Future cells, the
\* number of Past cells is dayOfYear - 1, and a number shown as 'd done' is the
\* number of Past and Current cells; every variant shows one of the two.
C20_CaptionAgreesWithGrid ==
    (Done /\ R.plan.dayOfYear \in 1..R.plan.totalDays) =>
        LET palette == Palette(R.variant)
            dotRows == RenderedRows
            past == CellCount(dotRows, palette.past)
            current == CellCount(dotRows, palette.current)
            future == CellCount(dotRows, palette.future)
        IN  /\ \A n \in Shown("d left") : n = future
            /\ past = R.plan.dayOfYear - 1
            /\ \A n \in Shown("d done") : n = past + current
            /\ Shown("d left") \cup Shown("d done") # {}
            /\ Shown("d left") \subseteq {R.plan.daysLeft}
            /\ Shown("d done") \subseteq {R.plan.dayOfYear}

\* C20's case: day 100 of a year in the Sydney flat grid, with 99 Past cells and
\* 'd done' and 'd left' both shown.
C20_Witness ==
    /\ Done
    /\ R.variant = "sydneyFlat"
    /\ R.plan.dayOfYear = 100
    /\ Shown("d done") = {100}
    /\ Shown("d left") = {R.plan.totalDays - 100}

\* C21: for totalDays 365 or 366 and dayOfYear in 1..totalDays, the percentage
\* shown is not below the one of the day before and not above the one of the day
\* after, is 100 exactly when daysLeft <= 1 (so already on the second-to-last
\* day, with one day left) and is 0 exactly when dayOfYear = 1.
C21_PercentageMonotone ==
    (/\ Done
     /\ R.plan.totalDays \in {365, 366}
     /\ R.plan.dayOfYear \in 1..R.plan.totalDays) =>
        /\ R.plan.dayOfYear > 1 =>
               percentageOf(R.plan.dayOfYear - 1, R.plan.totalDays) <= R.plan.percentage
        /\ R.plan.dayOfYear < R.plan.totalDays =>
               R.plan.percentage <= percentageOf(R.plan.dayOfYear + 1, R.plan.totalDays)
        /\ R.plan.percentage = 100 <=> R.plan.daysLeft <= 1
        /\ R.plan.percentage = 0 <=> R.plan.dayOfYear = 1
        /\ \A k \in 1..Len(R.plan.caption) :
               R.plan.caption[k][2] = "%" => R.plan.caption[k][1] = R.plan.percentage

\* C21's case: the second-to-last day of a leap year, one day left and 100
\* already shown.
C21_Witness ==
    /\ Done
    /\ R.plan.totalDays = 366
    /\ R.plan.daysLeft = 1
    /\ R.plan.percentage = 100
    /\ <<100, "%">> \in {R.plan.caption[k] : k \in 1..Len(R.plan.caption)}

====
